---- MODULE Spec2Model ----
(***************************************************************************)
(* Camera animation playback: AnimController (mode state machine, eased    *)
(* keyframe transitions, hover overlay) on top of AnimState (time cursor,  *)
(* curve sample, keyframe lookup), from src/cameras/anim-controller.ts.    *)
(*                                                                         *)
(* Number representation.  The program computes in IEEE doubles.           *)
(*   time       ticks of 2^-12 s (TicksPerSecond = 4096), so every time    *)
(*              is a double and sums of times are exact                    *)
(*              (1/64 s = 64, 0.25 s = 1024, 0.5 s = 2048, 5 s = 20480)    *)
(*   keyframes  sample indices in sixteenths of a sample (UnitsPerSample); *)
(*              a track has keyframes[i] / frameRate a whole number of     *)
(*              ticks for every i (ExactTimes), as it is for every frame   *)
(*              rate that is a power of two up to 256.  currentTime *      *)
(*              frameRate is then exact, and since 0.1 is no multiple of   *)
(*              2^-12 the rounding of frame + 0.1 and frame - 0.1 is far   *)
(*              smaller than their distance from any keyframe: the         *)
(*              comparisons of the keyframe scans are the comparisons of   *)
(*              the exact values                                           *)
(*   progress   the double itself (sign, exponent, 53-bit significand),    *)
(*              with the division and the addition of update rounded to    *)
(*              nearest, ties to even, as IEEE 754 rounds them             *)
(*   durations  transitionDuration in tenths of a second, standing for the *)
(*              double nearest to that decimal (0.8 for 8)                 *)
(*   lengths    millionths of a world unit (LenScale = 1.0); eased weights *)
(*              are computed in 2^-20 and are within 3 millionths          *)
(*   angles     milliradians, sines in thousandths                         *)
(* A non-finite length is the value NaN, which every operator on lengths   *)
(* propagates.                                                             *)
(***************************************************************************)
EXTENDS Integers, Sequences, FiniteSets, TLC

VARIABLES
    \* the track the AnimState was built from (immutable after construction)
    keyframes, frameRate, duration, loopMode, spline,
    \* AnimState
    cursor, position, target,
    \* AnimController
    basePosition, baseTarget, hoverTime,
    isTransitioning, transitionProgress, transitionDuration,
    transitionFromPos, transitionFromTarget, transitionToPos, transitionToTarget,
    \* collaborators observed during the last call
    looks,      \* camera.look commands issued by the last call, in order
    reads,      \* inputFrame.read() calls made by the last call
    \* history
    lastOp,     \* the last call and the mode it found the controller in
    steps,      \* update, next and prev calls made so far
    sumDt,      \* sum of every deltaTime passed to update
    sumHoverDt, \* sum of the deltaTime of the updates made while transitioning or paused
    destination, \* the keyframe time the last next() or prev() assigned to the cursor
    query       \* last keyframe lookup made on the bare AnimState

vars == <<keyframes, frameRate, duration, loopMode, spline, cursor, position, target,
          basePosition, baseTarget, hoverTime, isTransitioning, transitionProgress,
          transitionDuration, transitionFromPos, transitionFromTarget, transitionToPos, transitionToTarget,
          looks, reads, lastOp, steps, sumDt, sumHoverDt, destination, query>>

trackVars == <<keyframes, frameRate, duration, loopMode, spline>>

\* what no call of the controller assigns
fixedVars == <<trackVars, transitionDuration>>

----------------------------------------------------------------------------
(* Units *)

TickBits == 3 * 4

TicksPerSecond == 2^TickBits

UnitsPerSample == 2^4

TenthsPerSecond == 2 * 5

LenScale == 1000 * 1000

NaN == 0 - 2 * 1000 * LenScale

isFinite(x) == x # NaN

----------------------------------------------------------------------------
(* Bounds *)

MaxSteps == 4

MaxKeyLen == 3

MaxKey == 5

MaxT == 40

----------------------------------------------------------------------------
(* IEEE 754 doubles.  A number is sign, exponent and a 53-bit significand  *)
(* held in two limbs of 27 bits: its value is (hi * Limb + lo) * 2^e with  *)
(* 2^52 <= hi * Limb + lo < 2^53, or zero.  Sums and quotients are         *)
(* computed with three extra bits, the lowest sticky, and rounded to       *)
(* nearest, ties to even.  Subnormals and overflow are out of range here.  *)

Limb == 2^27

\* F(v), with v evaluated once
Eval(F(_), v) == CHOOSE r \in {F(x) : x \in {v}} : TRUE

Dbl(neg, e, hi, lo) == [kind |-> "num", neg |-> neg, e |-> e, hi |-> hi, lo |-> lo]

DZero == Dbl(FALSE, 0, 0, 0)

DNaN == [kind |-> "nan", neg |-> FALSE, e |-> 0, hi |-> 0, lo |-> 0]

DInf(neg) == [kind |-> "inf", neg |-> neg, e |-> 0, hi |-> 0, lo |-> 0]

DOne == Dbl(FALSE, 0 - 52, 2^25, 0)

DIsZero(x) == x.kind = "num" /\ x.hi = 0 /\ x.lo = 0

\* the wide significand <<hi, lo>> shifted right by d bits; sticky tells
\* whether a one was shifted out
RECURSIVE ShiftRight(_, _, _, _)
ShiftRight(hi, lo, sticky, d) ==
    IF d = 0 \/ (hi = 0 /\ lo = 0) THEN <<hi, lo, sticky>>
    ELSE IF d >= 27 THEN ShiftRight(hi \div Limb, hi % Limb, sticky \/ lo # 0, d - 27)
    ELSE <<hi \div 2^d, (hi % 2^d) * 2^(27 - d) + lo \div 2^d, sticky \/ lo % 2^d # 0>>

\* the sticky bit kept in the lowest bit
Jam(w) == IF w[3] /\ w[2] % 2 = 0 THEN <<w[1], w[2] + 1>> ELSE <<w[1], w[2]>>

\* the wide significand <<hi, lo>> shifted left by d bits, its value staying
\* below 2^58
RECURSIVE ShiftLeft(_, _, _)
ShiftLeft(hi, lo, d) ==
    IF d = 0 THEN <<hi, lo>>
    ELSE IF d >= 27 THEN ShiftLeft(hi * Limb + lo, 0, d - 27)
    ELSE <<hi * 2^d + lo \div 2^(27 - d), (lo % 2^(27 - d)) * 2^d>>

\* the number of bits of n >= 0
RECURSIVE BitLength(_)
BitLength(n) ==
    IF n >= 2^16 THEN 16 + BitLength(n \div 2^16)
    ELSE IF n >= 2^4 THEN 4 + BitLength(n \div 2^4)
    ELSE IF n = 0 THEN 0 ELSE 1 + BitLength(n \div 2)

\* a 56-bit significand (three extra bits, the lowest sticky) of exponent e
\* rounded to the nearest double, ties to even
RoundNearestEven(neg, e, hi, lo) ==
    Eval(LAMBDA w :
            LET low == w[2] % 8
                bhi == w[1] \div 8
                blo == (w[1] % 8) * 2^24 + w[2] \div 8
                up == low > 4 \/ (low = 4 /\ blo % 2 = 1)
                clo == IF up THEN (blo + 1) % Limb ELSE blo
                chi == IF up /\ blo + 1 = Limb THEN bhi + 1 ELSE bhi
            IN  IF chi = 2^26 THEN Dbl(neg, e + 4, 2^25, 0)
                ELSE Dbl(neg, e + 3, chi, clo),
         <<hi, lo>>)

\* the significand of x with three extra bits
Widen(x) == <<x.hi * 8 + (x.lo * 8) \div Limb, (x.lo * 8) % Limb>>

\* |x| < |y| for numbers other than zero
MagLess(x, y) ==
    \/ x.e < y.e
    \/ x.e = y.e /\ (x.hi < y.hi \/ (x.hi = y.hi /\ x.lo < y.lo))

\* |x| + |y| for x.e >= y.e
AddMag(neg, x, y) ==
    Eval(LAMBDA Y :
            LET X == Widen(x)
                lo == X[2] + Y[2]
                hi == X[1] + Y[1] + lo \div Limb
                S == IF hi >= 2^29 THEN Jam(ShiftRight(hi, lo % Limb, FALSE, 1))
                     ELSE <<hi, lo % Limb>>
            IN  RoundNearestEven(neg, IF hi >= 2^29 THEN x.e - 2 ELSE x.e - 3,
                                 S[1], S[2]),
         Jam(ShiftRight(Widen(y)[1], Widen(y)[2], FALSE, x.e - y.e)))

\* a wide significand below 2^56, not zero, shifted left until its 56th bit
\* is set, then rounded
Normalize(neg, e, hi, lo) ==
    Eval(LAMBDA w :
            LET s == 56 - (IF w[1] > 0 THEN 27 + BitLength(w[1]) ELSE BitLength(w[2]))
                z == ShiftLeft(w[1], w[2], s)
            IN  RoundNearestEven(neg, e - s, z[1], z[2]),
         <<hi, lo>>)

\* |x| - |y| for |x| > |y|
SubMag(neg, x, y) ==
    Eval(LAMBDA Y :
            LET X == Widen(x)
                borrow == IF X[2] < Y[2] THEN 1 ELSE 0
                lo == X[2] - Y[2] + borrow * Limb
                hi == X[1] - Y[1] - borrow
            IN  Normalize(neg, x.e - 3, hi, lo),
         Jam(ShiftRight(Widen(y)[1], Widen(y)[2], FALSE, x.e - y.e)))

\* x + y
DAdd(x, y) ==
    IF x.kind = "nan" \/ y.kind = "nan" THEN DNaN
    ELSE IF x.kind = "inf" /\ y.kind = "inf" THEN IF x.neg = y.neg THEN x ELSE DNaN
    ELSE IF x.kind = "inf" THEN x
    ELSE IF y.kind = "inf" THEN y
    ELSE IF DIsZero(y) THEN x
    ELSE IF DIsZero(x) THEN y
    ELSE IF x.neg = y.neg
         THEN IF x.e >= y.e THEN AddMag(x.neg, x, y) ELSE AddMag(x.neg, y, x)
    ELSE IF MagLess(y, x) THEN SubMag(x.neg, x, y)
    ELSE IF MagLess(x, y) THEN SubMag(y.neg, y, x)
    ELSE DZero

\* one step of restoring division by <<yhi, ylo>> on
\* s = <<remainder hi, remainder lo, quotient hi, quotient lo>>: the next
\* quotient bit, and the remainder doubled
DivStep(s, yhi, ylo) ==
    LET ge == s[1] > yhi \/ (s[1] = yhi /\ s[2] >= ylo)
        borrow == IF ge /\ s[2] < ylo THEN 1 ELSE 0
        rlo == IF ge THEN s[2] - ylo + borrow * Limb ELSE s[2]
        rhi == IF ge THEN s[1] - yhi - borrow ELSE s[1]
        q == s[4] * 2 + (IF ge THEN 1 ELSE 0)
    IN  <<rhi * 2 + (rlo * 2) \div Limb, (rlo * 2) % Limb,
          s[3] * 2 + q \div Limb, q % Limb>>

\* n more quotient bits: <<quotient hi, quotient lo, sticky>>; once the
\* remainder is zero the bits left are zero
RECURSIVE DivLoop(_, _, _, _)
DivLoop(s, n, yhi, ylo) ==
    IF n = 0 THEN <<s[3], s[4], s[1] # 0 \/ s[2] # 0>>
    ELSE IF s[1] = 0 /\ s[2] = 0
    THEN <<ShiftLeft(s[3], s[4], n)[1], ShiftLeft(s[3], s[4], n)[2], FALSE>>
    ELSE IF n % 2 = 1
    THEN Eval(LAMBDA t : DivLoop(t, n - 1, yhi, ylo), DivStep(s, yhi, ylo))
    ELSE Eval(LAMBDA t : DivLoop(t, n - 2, yhi, ylo),
              DivStep(DivStep(s, yhi, ylo), yhi, ylo))

\* |x| / |y|
DivMag(neg, x, y) ==
    LET k == IF x.hi > y.hi \/ (x.hi = y.hi /\ x.lo >= y.lo) THEN 55 ELSE 56
        Q == Jam(DivLoop(<<x.hi, x.lo, 0, 0>>, k + 1, y.hi, y.lo))
    IN  RoundNearestEven(neg, x.e - y.e - k, Q[1], Q[2])

\* x / y
DDiv(x, y) ==
    IF x.kind = "nan" \/ y.kind = "nan" THEN DNaN
    ELSE IF x.kind = "inf" THEN IF y.kind = "inf" THEN DNaN ELSE DInf(x.neg # y.neg)
    ELSE IF y.kind = "inf" THEN DZero
    ELSE IF DIsZero(y) THEN IF DIsZero(x) THEN DNaN ELSE DInf(x.neg # y.neg)
    ELSE IF DIsZero(x) THEN DZero
    ELSE DivMag(x.neg # y.neg, x, y)

\* the double n * 2^k for an integer n, |n| < 2^27
DFromInt(n, k) ==
    LET a == IF n < 0 THEN 0 - n ELSE n
        s == 53 - BitLength(a)
        z == ShiftLeft(0, a, s)
    IN  IF n = 0 THEN DZero ELSE Dbl(n < 0, k - s, z[1], z[2])

\* x < y, which is false of NaN; -Infinity is below and Infinity above
\* every number
DLess(x, y) ==
    IF x.kind = "nan" \/ y.kind = "nan" THEN FALSE
    ELSE IF x.kind = "inf" THEN x.neg /\ ~(y.kind = "inf" /\ y.neg)
    ELSE IF y.kind = "inf" THEN ~y.neg
    ELSE IF DIsZero(x) THEN ~DIsZero(y) /\ ~y.neg
    ELSE IF DIsZero(y) THEN x.neg
    ELSE IF x.neg # y.neg THEN x.neg
    ELSE IF x.neg THEN MagLess(y, x) ELSE MagLess(x, y)

\* x * 2^20 rounded to an integer, for |x| < 32
Fixed(x) ==
    LET sh == 0 - (x.e + 47)
        mag == IF sh > 30 THEN 0 ELSE (x.hi + 2^(sh - 1)) \div 2^sh
    IN  IF DIsZero(x) THEN 0 ELSE IF x.neg THEN 0 - mag ELSE mag

\* x * y for x and y in 2^-20, truncated to 2^-20
MulFixed(x, y) ==
    LET a == x \div 2^10
        b == x % 2^10
        c == y \div 2^10
        d == y % 2^10
    IN  a * c + (a * d + b * c + (b * d) \div 2^10) \div 2^10

\* x in 2^-20 to millionths
FixedToLen(x) == (x \div 2^14) * 15625 + ((x % 2^14) * 15625) \div 2^14

\* 1 - x * x * x for x in 2^-20, in millionths
OneLessCube(x) ==
    Eval(LAMBDA u :
            Eval(LAMBDA c : LenScale - FixedToLen(c), MulFixed(MulFixed(u, u), u)),
         x)

----------------------------------------------------------------------------
(* Vec3 *)

Vec3(x, y, z) == <<x, y, z>>

Add(a, b) == IF isFinite(a) /\ isFinite(b) THEN a + b ELSE NaN

VAdd(a, b) == Vec3(Add(a[1], b[1]), Add(a[2], b[2]), Add(a[3], b[3]))

VFinite(v) == isFinite(v[1]) /\ isFinite(v[2]) /\ isFinite(v[3])

----------------------------------------------------------------------------
(* AnimCursor: the time cursor primitive.  cursor is its internal phase,   *)
(* CursorValue the value the getter reports.                               *)

CursorReset == 0

CursorUpdate(c, dt) ==
    LET n == c + dt IN
    CASE loopMode = "none" -> IF n >= duration THEN duration ELSE n
      [] loopMode = "repeat" -> n % duration
      [] loopMode = "pingpong" -> n % (2 * duration)

CursorValue(c) == IF c > duration THEN 2 * duration - c ELSE c

CursorSet(v) == v

----------------------------------------------------------------------------
(* CubicSpline: the curve evaluator.  The parameter is in samples, here in *)
(* 1/TicksPerSecond of a sample (a time in ticks times the frame rate).    *)
(* The curve is closed over spline.length and has a knot every half        *)
(* sample; a curve of kind "gap" yields a non-finite component for the     *)
(* parameters of its gap.                                                  *)

GapLo == 6 * 10

GapHi == 7 * 10

SplineKnot(param) == (param % spline.length) \div (TicksPerSecond \div 2)

SplineEvaluate(param) ==
    LET u == SplineKnot(param)
        r == <<u * LenScale, (2 * u + 1) * LenScale, (300 - u) * LenScale,
               (u + 1) * LenScale, 7 * LenScale, (2 * u) * LenScale>>
        bad == (u % 6) + 1
    IN  IF spline.kind = "gap" /\ u >= GapLo /\ u <= GapHi
        THEN [i \in 1..6 |-> IF i = bad THEN NaN ELSE r[i]]
        ELSE r

----------------------------------------------------------------------------
(* AnimState *)

\* keyframes[i] / frameRate is a whole number of ticks for every keyframe
ExactTimes(kf, rate) ==
    \A i \in 1..Len(kf) : (kf[i] * TicksPerSecond) % (UnitsPerSample * rate) = 0

\* keyframes[i] / frameRate, in ticks
KeyframeTime(k) == (k * TicksPerSecond) \div (UnitsPerSample * frameRate)

\* KeyAfter without the epsilon
KeyAfterNoEpsilon(k, currentTime) ==
    k * TicksPerSecond > currentTime * frameRate * UnitsPerSample

\* keyframes[i] > currentTime * frameRate + 0.1: the keyframe less the frame,
\* in 1 / (UnitsPerSample * TicksPerSecond) of a sample, is more than a tenth
KeyAfter(k, currentTime) ==
    10 * (k * TicksPerSecond - currentTime * frameRate * UnitsPerSample)
        > UnitsPerSample * TicksPerSecond

\* KeyBefore with the epsilon added instead of subtracted
KeyBeforePlusEpsilon(k, currentTime) ==
    10 * (currentTime * frameRate * UnitsPerSample - k * TicksPerSecond)
        > 0 - UnitsPerSample * TicksPerSecond

\* keyframes[i] < currentTime * frameRate - 0.1
KeyBefore(k, currentTime) ==
    10 * (currentTime * frameRate * UnitsPerSample - k * TicksPerSecond)
        > UnitsPerSample * TicksPerSecond

RECURSIVE ScanNext(_, _)
ScanNext(i, currentTime) ==
    IF i > Len(keyframes)
    THEN IF Len(keyframes) > 0 THEN KeyframeTime(keyframes[1]) ELSE 0
    ELSE IF KeyAfter(keyframes[i], currentTime)
         THEN KeyframeTime(keyframes[i])
         ELSE ScanNext(i + 1, currentTime)

getNextKeyframe(currentTime) == ScanNext(1, currentTime)

RECURSIVE ScanPrev(_, _)
ScanPrev(i, currentTime) ==
    IF i < 1
    THEN IF Len(keyframes) > 0 THEN KeyframeTime(keyframes[Len(keyframes)]) ELSE 0
    ELSE IF KeyBefore(keyframes[i], currentTime)
         THEN KeyframeTime(keyframes[i])
         ELSE ScanPrev(i - 1, currentTime)

getPrevKeyframe(currentTime) == ScanPrev(Len(keyframes), currentTime)

\* result.every(isFinite)
EveryFinite(result) == \A i \in 1..6 : isFinite(result[i])

\* AnimState.update without the finiteness test
AnimStateUpdateUnguarded(c, pos, tgt, dt) ==
    LET c2 == CursorUpdate(c, dt)
        result == SplineEvaluate(CursorValue(c2) * frameRate)
    IN  [cursor |-> c2,
         position |-> Vec3(result[1], result[2], result[3]),
         target |-> Vec3(result[4], result[5], result[6])]

\* AnimState.update(dt) on an AnimState whose cursor phase is c and whose
\* pose is (pos, tgt): the cursor, position and target it leaves
AnimStateUpdate(c, pos, tgt, dt) ==
    LET c2 == CursorUpdate(c, dt)
        result == SplineEvaluate(CursorValue(c2) * frameRate)
    IN  IF EveryFinite(result)
        THEN [cursor |-> c2,
              position |-> Vec3(result[1], result[2], result[3]),
              target |-> Vec3(result[4], result[5], result[6])]
        ELSE [cursor |-> c2, position |-> pos, target |-> tgt]

\* AnimState.fromTrack: the closed curve's domain,
\* (duration + extra) * frameRate, with extra = 1 when
\* duration === times[times.length - 1] / frameRate.  The duration is a whole
\* number of ticks, so the rounded quotient equals it only when the exact
\* quotient does.
SplineLength(track) ==
    LET n == Len(track.keyframes)
        extra == IF n > 0 /\ track.duration * track.frameRate * UnitsPerSample
                               = track.keyframes[n] * TicksPerSecond
                 THEN 1 ELSE 0
    IN  (track.duration + extra * TicksPerSecond) * track.frameRate

----------------------------------------------------------------------------
(* Math.sin / Math.cos on milliradians, in thousandths (Taylor series to   *)
(* the seventh power on the reduced argument; within 0.002 of the sine)    *)

HalfPi == 1571

SinQuadrant(x) ==
    LET x2 == (x * x) \div 1000
        x3 == (x2 * x) \div 1000
        x5 == (x3 * x2) \div 1000
        x7 == (x5 * x2) \div 1000
        v == x - (x3 \div 6) + (x5 \div 120) - (x7 \div 5040)
    IN  IF v > 1000 THEN 1000 ELSE v

Sin(a) ==
    LET r == a % (4 * HalfPi) IN
    IF r <= HalfPi THEN SinQuadrant(r)
    ELSE IF r <= 2 * HalfPi THEN SinQuadrant(2 * HalfPi - r)
    ELSE IF r <= 3 * HalfPi THEN 0 - SinQuadrant(r - 2 * HalfPi)
    ELSE 0 - SinQuadrant(4 * HalfPi - r)

Cos(a) == Sin(a + HalfPi)

----------------------------------------------------------------------------
(* AnimController *)

\* hoverAmplitude = 0.02, in millionths
hoverAmplitude == 20000

\* hoverSpeed = 0.5, in thousandths
hoverSpeed == 500

\* transitionDuration = 0.8, in tenths of a second
defaultTransitionDuration == 8

\* the hover offset computed from this.hoverTime (ticks), in millionths
Hover(h) ==
    LET hoverX == (Sin((h * hoverSpeed) \div TicksPerSecond) * hoverAmplitude) \div 1000
        hoverY == (Sin((h * hoverSpeed * 7) \div (TicksPerSecond * 10) + 1000)
                      * hoverAmplitude * 5) \div 10000
        hoverZ == (Cos((h * hoverSpeed * 5) \div (TicksPerSecond * 10))
                      * hoverAmplitude * 3) \div 10000
    IN  Vec3(hoverX, hoverY, hoverZ)

\* the ease written as 1 - Math.pow(t, 3)
easeOutCubicSlip(t) ==
    IF t.kind = "num"
    THEN OneLessCube(Fixed(t))
    ELSE NaN

\* 1 - Math.pow(1 - t, 3): the progress to an eased weight in millionths
easeOutCubic(t) ==
    IF t.kind = "num"
    THEN OneLessCube(2^20 - Fixed(t))
    ELSE NaN

\* from + (to - from) * t for an eased weight t; poses are whole world units
Lerp(from, to, t) ==
    IF isFinite(from) /\ isFinite(to) /\ isFinite(t)
    THEN from + ((to - from) \div LenScale) * t
    ELSE NaN

VLerp(from, to, t) ==
    Vec3(Lerp(from[1], to[1], t), Lerp(from[2], to[2], t), Lerp(from[3], to[3], t))

\* a time in ticks as a double
Seconds(ticks) == DFromInt(ticks, 0 - TickBits)

\* the double a duration in tenths of a second stands for
DurationSeconds(tenths) == DDiv(DFromInt(tenths, 0), DFromInt(TenthsPerSecond, 0))

\* frame times of 0, 1/64 s, 0.5 s and 5 s
DeltaTimes == {0, 64, 2048, 20480}

\* frame times of 0.25 s, 0.5 s and 5 s
LiveDeltaTimes == {1024, 2048, 20480}

\* frame times of 0 s and 1/64 s
SmallDeltaTimes == {0, 64}

\* transition durations of 0.8 s and 2.5 s
LiveDurations == {defaultTransitionDuration, 25}

\* transition durations of 0 s and -0.8 s
BadDurations == {0, 0 - defaultTransitionDuration}

\* deltaTime / transitionDuration for the frame times and durations above,
\* computed once
Quotients ==
    [d \in LiveDurations \cup BadDurations |->
        [dt \in DeltaTimes \cup LiveDeltaTimes \cup SmallDeltaTimes |->
            DDiv(Seconds(dt), DurationSeconds(d))]]

\* deltaTime / this.transitionDuration: NaN for 0 / 0, Infinity for a
\* positive deltaTime over 0
ProgressStep(deltaTime) ==
    IF transitionDuration \in DOMAIN Quotients
        /\ deltaTime \in DOMAIN Quotients[transitionDuration]
    THEN Quotients[transitionDuration][deltaTime]
    ELSE DDiv(Seconds(deltaTime), DurationSeconds(transitionDuration))

\* the progress assigned from the frame's quotient instead of accumulated
ProgressSumAssigned(deltaTime) == ProgressStep(deltaTime)

\* this.transitionProgress += deltaTime / this.transitionDuration
ProgressSum(deltaTime) == DAdd(transitionProgress, ProgressStep(deltaTime))

\* x >= 1, which is false of NaN
AtLeastOne(x) ==
    \/ x.kind = "inf" /\ ~x.neg
    \/ x.kind = "num" /\ ~x.neg /\ ~DIsZero(x) /\ x.e >= 0 - 52

Look(pos, tgt) == [position |-> pos, target |-> tgt]

Mode(paused) ==
    IF isTransitioning THEN "transitioning"
    ELSE IF paused THEN "paused" ELSE "playing"

\* the transition branch returning as soon as the transition completes,
\* before the camera is moved
UpdateTransitionEarlyReturn(deltaTime) ==
    \E sum \in {ProgressSum(deltaTime)} :
        LET done == AtLeastOne(sum)
            progress == IF done THEN DOne ELSE sum
        IN  \E t \in {easeOutCubic(progress)} :
            LET currentPos == VLerp(transitionFromPos, transitionToPos, t)
                currentTarget == VLerp(transitionFromTarget, transitionToTarget, t)
                hoveredPos == VAdd(currentPos, Hover(hoverTime + deltaTime))
            IN  /\ transitionProgress' = progress
                /\ isTransitioning' = ~done
                /\ basePosition' = IF done THEN transitionToPos ELSE basePosition
                /\ baseTarget' = IF done THEN transitionToTarget ELSE baseTarget
                /\ hoverTime' = IF done THEN hoverTime ELSE hoverTime + deltaTime
                /\ looks' = IF done THEN <<>> ELSE <<Look(hoveredPos, currentTarget)>>
                /\ UNCHANGED <<cursor, position, target>>

\* the transition branch completing on progress > 1 instead of >= 1
UpdateTransitionStrict(deltaTime) ==
    \E sum \in {ProgressSum(deltaTime)} :
        LET done == AtLeastOne(sum) /\ sum # DOne
            progress == IF done THEN DOne ELSE sum
        IN  \E t \in {easeOutCubic(progress)} :
            LET currentPos == VLerp(transitionFromPos, transitionToPos, t)
                currentTarget == VLerp(transitionFromTarget, transitionToTarget, t)
                hoveredPos == VAdd(currentPos, Hover(hoverTime + deltaTime))
            IN  /\ transitionProgress' = progress
                /\ isTransitioning' = ~done
                /\ basePosition' = IF done THEN transitionToPos ELSE basePosition
                /\ baseTarget' = IF done THEN transitionToTarget ELSE baseTarget
                /\ hoverTime' = hoverTime + deltaTime
                /\ looks' = <<Look(hoveredPos, currentTarget)>>
                /\ UNCHANGED <<cursor, position, target>>

\* the transition branch sending the blend without the hover offset
UpdateTransitionUnhovered(deltaTime) ==
    \E sum \in {ProgressSum(deltaTime)} :
        LET done == AtLeastOne(sum)
            progress == IF done THEN DOne ELSE sum
        IN  \E t \in {easeOutCubic(progress)} :
            LET currentPos == VLerp(transitionFromPos, transitionToPos, t)
                currentTarget == VLerp(transitionFromTarget, transitionToTarget, t)
                hoveredPos == currentPos
            IN  /\ transitionProgress' = progress
                /\ isTransitioning' = ~done
                /\ basePosition' = IF done THEN transitionToPos ELSE basePosition
                /\ baseTarget' = IF done THEN transitionToTarget ELSE baseTarget
                /\ hoverTime' = hoverTime + deltaTime
                /\ looks' = <<Look(hoveredPos, currentTarget)>>
                /\ UNCHANGED <<cursor, position, target>>

\* the transition branch completing without copying the destination to the base pose
UpdateTransitionNoCommit(deltaTime) ==
    \E sum \in {ProgressSum(deltaTime)} :
        LET done == AtLeastOne(sum)
            progress == IF done THEN DOne ELSE sum
        IN  \E t \in {easeOutCubic(progress)} :
            LET currentPos == VLerp(transitionFromPos, transitionToPos, t)
                currentTarget == VLerp(transitionFromTarget, transitionToTarget, t)
                hoveredPos == VAdd(currentPos, Hover(hoverTime + deltaTime))
            IN  /\ transitionProgress' = progress
                /\ isTransitioning' = ~done
                /\ basePosition' = basePosition
                /\ baseTarget' = baseTarget
                /\ hoverTime' = hoverTime + deltaTime
                /\ looks' = <<Look(hoveredPos, currentTarget)>>
                /\ UNCHANGED <<cursor, position, target>>

\* the branch of update taken while this.isTransitioning
UpdateTransition(deltaTime) ==
    \E sum \in {ProgressSum(deltaTime)} :
        LET done == AtLeastOne(sum)
            progress == IF done THEN DOne ELSE sum
        IN  \E t \in {easeOutCubic(progress)} :
            LET currentPos == VLerp(transitionFromPos, transitionToPos, t)
                currentTarget == VLerp(transitionFromTarget, transitionToTarget, t)
                hoveredPos == VAdd(currentPos, Hover(hoverTime + deltaTime))
            IN  /\ transitionProgress' = progress
                /\ isTransitioning' = ~done
                /\ basePosition' = IF done THEN transitionToPos ELSE basePosition
                /\ baseTarget' = IF done THEN transitionToTarget ELSE baseTarget
                /\ hoverTime' = hoverTime + deltaTime
                /\ looks' = <<Look(hoveredPos, currentTarget)>>
                /\ UNCHANGED <<cursor, position, target>>

\* the paused branch on a controller that advances the timeline every frame
UpdatePausedAdvancing(deltaTime) ==
    \E a \in {AnimStateUpdate(cursor, position, target, deltaTime)} :
        LET hoveredPos == VAdd(basePosition, Hover(hoverTime + deltaTime))
        IN  /\ cursor' = a.cursor
            /\ position' = a.position
            /\ target' = a.target
            /\ hoverTime' = hoverTime + deltaTime
            /\ looks' = <<Look(hoveredPos, baseTarget)>>
            /\ UNCHANGED <<basePosition, baseTarget, isTransitioning,
                           transitionProgress>>

\* the paused branch assigning the hover clock instead of adding to it
UpdatePausedClockAssigned(deltaTime) ==
    LET hoveredPos == VAdd(basePosition, Hover(deltaTime))
    IN  /\ hoverTime' = deltaTime
        /\ looks' = <<Look(hoveredPos, baseTarget)>>
        /\ UNCHANGED <<cursor, position, target, basePosition, baseTarget,
                       isTransitioning, transitionProgress>>

\* the branch taken when paused and not transitioning
UpdatePaused(deltaTime) ==
    LET hoveredPos == VAdd(basePosition, Hover(hoverTime + deltaTime))
    IN  /\ hoverTime' = hoverTime + deltaTime
        /\ looks' = <<Look(hoveredPos, baseTarget)>>
        /\ UNCHANGED <<cursor, position, target, basePosition, baseTarget,
                       isTransitioning, transitionProgress>>

\* playback with the hover offset applied to the camera position
UpdatePlayingHovered(deltaTime) ==
    \E a \in {AnimStateUpdate(cursor, position, target, deltaTime)} :
        /\ cursor' = a.cursor
        /\ position' = a.position
        /\ target' = a.target
        /\ basePosition' = a.position
        /\ baseTarget' = a.target
        /\ looks' = <<Look(VAdd(a.position, Hover(hoverTime)), a.target)>>
        /\ UNCHANGED <<hoverTime, isTransitioning, transitionProgress>>

\* normal animation playback
UpdatePlaying(deltaTime) ==
    \E a \in {AnimStateUpdate(cursor, position, target, deltaTime)} :
        /\ cursor' = a.cursor
        /\ position' = a.position
        /\ target' = a.target
        /\ basePosition' = a.position
        /\ baseTarget' = a.target
        /\ looks' = <<Look(a.position, a.target)>>
        /\ UNCHANGED <<hoverTime, isTransitioning, transitionProgress>>

\* update reading the input frame only when no transition is in flight
UpdateCallReadInElse(deltaTime, inputFrame, isPaused) ==
    /\ IF isTransitioning THEN UpdateTransition(deltaTime)
       ELSE IF isPaused THEN UpdatePaused(deltaTime)
       ELSE UpdatePlaying(deltaTime)
    /\ reads' = IF isTransitioning THEN 0 ELSE 1
    /\ lastOp' = [op |-> "update", dt |-> deltaTime, paused |-> isPaused,
                  mode |-> Mode(isPaused), progress |-> transitionProgress]
    /\ steps' = steps + 1
    /\ sumDt' = sumDt + deltaTime
    /\ sumHoverDt' = IF isTransitioning \/ isPaused
                     THEN sumHoverDt + deltaTime ELSE sumHoverDt
    /\ UNCHANGED <<fixedVars, query, destination, transitionFromPos, transitionFromTarget,
                   transitionToPos, transitionToTarget>>

\* update testing the pause flag before the transition
UpdateCallPauseFirst(deltaTime, inputFrame, isPaused) ==
    /\ IF isPaused THEN UpdatePaused(deltaTime)
       ELSE IF isTransitioning THEN UpdateTransition(deltaTime)
       ELSE UpdatePlaying(deltaTime)
    /\ reads' = 1
    /\ lastOp' = [op |-> "update", dt |-> deltaTime, paused |-> isPaused,
                  mode |-> Mode(isPaused), progress |-> transitionProgress]
    /\ steps' = steps + 1
    /\ sumDt' = sumDt + deltaTime
    /\ sumHoverDt' = IF isTransitioning \/ isPaused
                     THEN sumHoverDt + deltaTime ELSE sumHoverDt
    /\ UNCHANGED <<fixedVars, query, destination, transitionFromPos, transitionFromTarget,
                   transitionToPos, transitionToTarget>>

\* AnimController.update(deltaTime, inputFrame, camera, isPaused); the frame
\* read is discarded
UpdateCall(deltaTime, inputFrame, isPaused) ==
    /\ IF isTransitioning THEN UpdateTransition(deltaTime)
       ELSE IF isPaused THEN UpdatePaused(deltaTime)
       ELSE UpdatePlaying(deltaTime)
    /\ reads' = 1
    /\ lastOp' = [op |-> "update", dt |-> deltaTime, paused |-> isPaused,
                  mode |-> Mode(isPaused), progress |-> transitionProgress]
    /\ steps' = steps + 1
    /\ sumDt' = sumDt + deltaTime
    /\ sumHoverDt' = IF isTransitioning \/ isPaused
                     THEN sumHoverDt + deltaTime ELSE sumHoverDt
    /\ UNCHANGED <<fixedVars, query, destination, transitionFromPos, transitionFromTarget,
                   transitionToPos, transitionToTarget>>

\* update, within the bound on the number of calls
Update(deltaTime, inputFrame, isPaused) ==
    /\ steps < MaxSteps
    /\ UpdateCall(deltaTime, inputFrame, isPaused)

\* navigation starting the transition from the timeline pose instead of
\* the base pose
NavigateFromTimeline(name, time) ==
    \E a \in {AnimStateUpdate(CursorSet(time), position, target, 0)} :
        /\ steps < MaxSteps
        /\ transitionFromPos' = position
        /\ transitionFromTarget' = target
        /\ cursor' = a.cursor
        /\ position' = a.position
        /\ target' = a.target
        /\ transitionToPos' = a.position
        /\ transitionToTarget' = a.target
        /\ isTransitioning' = TRUE
        /\ transitionProgress' = DZero
        /\ looks' = <<>>
        /\ reads' = 0
        /\ lastOp' = [op |-> name, dt |-> 0, paused |-> FALSE, mode |-> Mode(FALSE),
                      progress |-> transitionProgress]
        /\ steps' = steps + 1
        /\ destination' = time
        /\ UNCHANGED <<fixedVars, query, basePosition, baseTarget, hoverTime,
                       sumDt, sumHoverDt>>

\* navigation assigning the cursor without the update(0) that follows
NavigateWithoutResample(name, time) ==
    \E a \in {AnimStateUpdate(CursorSet(time), position, target, 0)} :
        /\ steps < MaxSteps
        /\ transitionFromPos' = basePosition
        /\ transitionFromTarget' = baseTarget
        /\ cursor' = CursorSet(time)
        /\ position' = position
        /\ target' = target
        /\ transitionToPos' = position
        /\ transitionToTarget' = target
        /\ isTransitioning' = TRUE
        /\ transitionProgress' = DZero
        /\ looks' = <<>>
        /\ reads' = 0
        /\ lastOp' = [op |-> name, dt |-> 0, paused |-> FALSE, mode |-> Mode(FALSE),
                      progress |-> transitionProgress]
        /\ steps' = steps + 1
        /\ destination' = time
        /\ UNCHANGED <<fixedVars, query, basePosition, baseTarget, hoverTime,
                       sumDt, sumHoverDt>>

\* navigation starting the transition without resetting its progress
NavigateKeepsProgress(name, time) ==
    \E a \in {AnimStateUpdate(CursorSet(time), position, target, 0)} :
        /\ steps < MaxSteps
        /\ transitionFromPos' = basePosition
        /\ transitionFromTarget' = baseTarget
        /\ cursor' = a.cursor
        /\ position' = a.position
        /\ target' = a.target
        /\ transitionToPos' = a.position
        /\ transitionToTarget' = a.target
        /\ isTransitioning' = TRUE
        /\ transitionProgress' = transitionProgress
        /\ looks' = <<>>
        /\ reads' = 0
        /\ lastOp' = [op |-> name, dt |-> 0, paused |-> FALSE, mode |-> Mode(FALSE),
                      progress |-> transitionProgress]
        /\ steps' = steps + 1
        /\ destination' = time
        /\ UNCHANGED <<fixedVars, query, basePosition, baseTarget, hoverTime,
                       sumDt, sumHoverDt>>

\* the body shared by next() and prev(): jump the cursor to keyframe time
\* and start a transition from the base pose to the pose sampled there
Navigate(name, time) ==
    \E a \in {AnimStateUpdate(CursorSet(time), position, target, 0)} :
        /\ steps < MaxSteps
        /\ transitionFromPos' = basePosition
        /\ transitionFromTarget' = baseTarget
        /\ cursor' = a.cursor
        /\ position' = a.position
        /\ target' = a.target
        /\ transitionToPos' = a.position
        /\ transitionToTarget' = a.target
        /\ isTransitioning' = TRUE
        /\ transitionProgress' = DZero
        /\ looks' = <<>>
        /\ reads' = 0
        /\ lastOp' = [op |-> name, dt |-> 0, paused |-> FALSE, mode |-> Mode(FALSE),
                      progress |-> transitionProgress]
        /\ steps' = steps + 1
        /\ destination' = time
        /\ UNCHANGED <<fixedVars, query, basePosition, baseTarget, hoverTime,
                       sumDt, sumHoverDt>>

\* AnimController.next()
next == Navigate("next", getNextKeyframe(CursorValue(cursor)))

\* AnimController.prev()
prev == Navigate("prev", getPrevKeyframe(CursorValue(cursor)))


\* AnimController.onEnter(camera): the camera is sent the timeline pose
onEnter ==
    /\ looks' = <<Look(position, target)>>
    /\ reads' = 0
    /\ lastOp' = [op |-> "onEnter", dt |-> 0, paused |-> FALSE, mode |-> Mode(FALSE),
                  progress |-> transitionProgress]
    /\ UNCHANGED <<fixedVars, query, destination, cursor, position, target,
                   basePosition,
                   baseTarget, hoverTime, isTransitioning, transitionProgress,
                   transitionFromPos, transitionFromTarget, transitionToPos,
                   transitionToTarget, steps, sumDt, sumHoverDt>>

----------------------------------------------------------------------------
(* Tracks and specifications *)

Track(kf, dur, mode, kind) ==
    [keyframes |-> kf, frameRate |-> 32, duration |-> dur, loopMode |-> mode,
     kind |-> kind]

\* keyframes at samples 0, 32, 64 (and 0, 20, 45) of a 2 s track at 32 fps
Tracks ==
    { Track(<<0, 512, 1024>>, 2 * TicksPerSecond, "repeat", "smooth"),
      Track(<<0, 512, 1024>>, 2 * TicksPerSecond, "none", "gap"),
      Track(<<0, 320, 720>>, 2 * TicksPerSecond, "pingpong", "smooth"),
      Track(<<0, 320, 720>>, 2 * TicksPerSecond, "repeat", "gap"),
      Track(<< >>, 2 * TicksPerSecond, "none", "smooth") }

NoOp == [op |-> "new", dt |-> 0, paused |-> FALSE, mode |-> "playing", progress |-> DZero]

NoQuery == [asked |-> FALSE, t |-> 0, next |-> 0, prev |-> 0, back |-> 0]

\* new AnimController(animTrack), with transitionDuration set to d
Construct(track, d) ==
        /\ ExactTimes(track.keyframes, track.frameRate)
        /\ keyframes = track.keyframes
        /\ frameRate = track.frameRate
        /\ duration = track.duration
        /\ loopMode = track.loopMode
        /\ spline = [length |-> SplineLength(track), kind |-> track.kind]
        /\ LET a == AnimStateUpdate(CursorReset, Vec3(0, 0, 0), Vec3(0, 0, 0), 0)
           IN  /\ cursor = a.cursor
               /\ position = a.position
               /\ target = a.target
               /\ basePosition = a.position
               /\ baseTarget = a.target
        /\ hoverTime = 0
        /\ isTransitioning = FALSE
        /\ transitionProgress = DZero
        /\ transitionDuration = d
        /\ transitionFromPos = Vec3(0, 0, 0)
        /\ transitionFromTarget = Vec3(0, 0, 0)
        /\ transitionToPos = Vec3(0, 0, 0)
        /\ transitionToTarget = Vec3(0, 0, 0)
        /\ looks = <<>>
        /\ reads = 0
        /\ lastOp = NoOp
        /\ steps = 0
        /\ sumDt = 0
        /\ sumHoverDt = 0
        /\ destination = 0
        /\ query = NoQuery

IsUpdate(op) == op.op = "update"

IsNavigation(op) == op.op \in {"next", "prev"}

\* the frame contents the controller is handed: none, or pointer input
InputFrames == {"empty", "drag"}

Init == \E track \in Tracks : Construct(track, defaultTransitionDuration)

Next ==
    \/ \E deltaTime \in DeltaTimes, inputFrame \in InputFrames, isPaused \in BOOLEAN :
            Update(deltaTime, inputFrame, isPaused)
    \/ next
    \/ prev
    \/ onEnter

Spec == Init /\ [][Next]_vars

\* ---- one navigation followed by frames until its transition completes ----

InitLive == \E track \in Tracks, d \in LiveDurations : Construct(track, d)

\* a frame of a transition in flight
Frame(deltaTime, inputFrame, isPaused) ==
    /\ isTransitioning
    /\ UpdateCall(deltaTime, inputFrame, isPaused)

Frames ==
    \E deltaTime \in LiveDeltaTimes, inputFrame \in InputFrames, isPaused \in BOOLEAN :
        Frame(deltaTime, inputFrame, isPaused)

\* the one navigation command of a run
Start == steps = 0 /\ (next \/ prev)

NextLive == Start \/ Frames \/ onEnter

\* the render loop keeps calling update while a transition is in flight
SpecLive == InitLive /\ [][NextLive]_vars /\ WF_vars(Frames)

\* ---- a controller configured with a transition duration of 0 or below ----

InitDur == \E track \in Tracks, d \in BadDurations : Construct(track, d)

NextDur ==
    \/ \E deltaTime \in SmallDeltaTimes, inputFrame \in InputFrames, isPaused \in BOOLEAN :
            Update(deltaTime, inputFrame, isPaused)
    \/ next
    \/ prev
    \/ onEnter

SpecDur == InitDur /\ [][NextDur]_vars

----------------------------------------------------------------------------
(* The keyframe lookups on a bare AnimState: every ordered keyframe list   *)
(* up to MaxKeyLen entries over 0..MaxKey sixteenths of a sample, and the  *)
(* list 0, 30, 60 samples; frame rates 30, 32 and 64 where the keyframe    *)
(* times are whole ticks; times 0..MaxT ticks and the whole and half       *)
(* seconds up to 3 s.                                                      *)

SortedKeyLists ==
    { s \in UNION { [1..n -> 0..MaxKey] : n \in 0..MaxKeyLen } :
        \A i \in 1..(Len(s) - 1) : s[i] <= s[i + 1] }

ExampleKeys == <<0, 30 * UnitsPerSample, 60 * UnitsPerSample>>

QueryTimes == (0..MaxT) \cup { (n * TicksPerSecond) \div 2 : n \in 1..6 }

InitKF ==
    /\ keyframes \in SortedKeyLists \cup {ExampleKeys}
    /\ frameRate \in {30, 32, 64}
    /\ ExactTimes(keyframes, frameRate)
    /\ duration = 2 * TicksPerSecond
    /\ loopMode = "none"
    /\ spline = [length |-> 3 * TicksPerSecond * frameRate, kind |-> "smooth"]
    /\ cursor = CursorReset
    /\ position = Vec3(0, 0, 0)
    /\ target = Vec3(0, 0, 0)
    /\ basePosition = Vec3(0, 0, 0)
    /\ baseTarget = Vec3(0, 0, 0)
    /\ hoverTime = 0
    /\ isTransitioning = FALSE
    /\ transitionProgress = DZero
    /\ transitionDuration = defaultTransitionDuration
    /\ transitionFromPos = Vec3(0, 0, 0)
    /\ transitionFromTarget = Vec3(0, 0, 0)
    /\ transitionToPos = Vec3(0, 0, 0)
    /\ transitionToTarget = Vec3(0, 0, 0)
    /\ looks = <<>>
    /\ reads = 0
    /\ lastOp = NoOp
    /\ steps = 0
    /\ sumDt = 0
    /\ sumHoverDt = 0
    /\ destination = 0
    /\ query = NoQuery

\* getNextKeyframe(t), getPrevKeyframe(t) and getPrevKeyframe(getNextKeyframe(t))
Lookup(t) ==
    /\ query' = [asked |-> TRUE, t |-> t,
                 next |-> getNextKeyframe(t),
                 prev |-> getPrevKeyframe(t),
                 back |-> getPrevKeyframe(getNextKeyframe(t))]
    /\ UNCHANGED <<fixedVars, cursor, position, target, basePosition, baseTarget,
                   hoverTime, isTransitioning, transitionProgress,
                   transitionFromPos, transitionFromTarget, transitionToPos,
                   transitionToTarget, looks, reads, lastOp, steps, sumDt, sumHoverDt,
                   destination>>

NextKF == \E t \in QueryTimes : Lookup(t)

SpecKF == InitKF /\ [][NextKF]_vars

----------------------------------------------------------------------------
(* Properties *)

\* the curve sample at a cursor phase, as AnimState.update evaluates it
SampleAt(c) == SplineEvaluate(CursorValue(c) * frameRate)

\* the pose AnimState.update commits for a sample, given the pose held before
Committed(result, pos, tgt) ==
    IF EveryFinite(result)
    THEN <<Vec3(result[1], result[2], result[3]), Vec3(result[4], result[5], result[6])>>
    ELSE <<pos, tgt>>

\* C1: every update call, whatever the mode, the dt and the pause flag,
\* issues exactly one camera.look command, and the three position and the
\* three target components of that command are finite.
C1_OneFiniteLook ==
    IsUpdate(lastOp) =>
        /\ Len(looks) = 1
        /\ VFinite(looks[1].position)
        /\ VFinite(looks[1].target)

\* an update with dt = 5 s and the pause flag set completed a transition on
\* a track whose curve has a non-finite gap, and one look came out
C1_Witness ==
    /\ IsUpdate(lastOp)
    /\ lastOp.mode = "transitioning"
    /\ lastOp.dt = 20480
    /\ lastOp.paused
    /\ spline.kind = "gap"
    /\ Len(looks) = 1

\* C2: next() and prev() are enabled in every state; each leaves the
\* controller transitioning with progress 0, fromPose the basePose held at
\* the call (which the call does not change), the cursor at the adjacent
\* keyframe time after advance(0), the timeline pose the one committed for
\* the sample there, and toPose that timeline pose.
C2_NavigationStep ==
    IsNavigation(lastOp') =>
        LET time == IF lastOp'.op = "next"
                    THEN getNextKeyframe(CursorValue(cursor))
                    ELSE getPrevKeyframe(CursorValue(cursor))
        IN  /\ isTransitioning'
            /\ transitionProgress' = DZero
            /\ transitionFromPos' = basePosition
            /\ transitionFromTarget' = baseTarget
            /\ basePosition' = basePosition
            /\ baseTarget' = baseTarget
            /\ cursor' = CursorUpdate(CursorSet(time), 0)
            /\ <<position', target'>> = Committed(SampleAt(cursor'), position, target)
            /\ transitionToPos' = position'
            /\ transitionToTarget' = target'

C2_Navigation ==
    /\ [](steps < MaxSteps => ENABLED next /\ ENABLED prev)
    /\ [][C2_NavigationStep]_vars

\* next() was called in the middle of a transition between two different
\* poses, and the new transition starts from the base pose
C2_Witness ==
    /\ lastOp.op = "next"
    /\ lastOp.mode = "transitioning"
    /\ DLess(DZero, lastOp.progress)
    /\ DLess(lastOp.progress, DOne)
    /\ isTransitioning
    /\ transitionProgress = DZero
    /\ transitionFromPos = basePosition
    /\ transitionFromPos # transitionToPos

\* C3: an update made while transitioning in which progress + dt/duration
\* reaches or exceeds 1 sets progress to exactly 1, sets basePose to toPose
\* and leaves Transitioning; one in which the sum stays below 1 keeps
\* Transitioning and basePose.
C3_CompletionStep ==
    (IsUpdate(lastOp') /\ isTransitioning) =>
        LET sum == DAdd(transitionProgress, ProgressStep(lastOp'.dt))
        IN  IF AtLeastOne(sum)
            THEN /\ transitionProgress' = DOne
                 /\ basePosition' = transitionToPos
                 /\ baseTarget' = transitionToTarget
                 /\ ~isTransitioning'
            ELSE /\ transitionProgress' = sum
                 /\ isTransitioning'
                 /\ basePosition' = basePosition
                 /\ baseTarget' = baseTarget

C3_Completion == [][C3_CompletionStep]_vars

\* a transition of 2.5 s was completed by an update of 0.5 s whose sum with
\* the progress before it is exactly 1, and the base pose moved to the
\* destination
C3_Witness ==
    /\ IsUpdate(lastOp)
    /\ lastOp.mode = "transitioning"
    /\ lastOp.dt = 2048
    /\ DLess(DZero, lastOp.progress)
    /\ DAdd(lastOp.progress, ProgressStep(lastOp.dt)) = DOne
    /\ ~isTransitioning
    /\ transitionProgress = DOne
    /\ basePosition = transitionToPos
    /\ transitionFromPos # transitionToPos

\* C4: a Playing update advances the timeline by exactly dt once, sends the
\* camera exactly the timeline's resulting position and target, with no
\* hover offset, and sets basePose to that pose.
C4_PlayingStep ==
    (IsUpdate(lastOp') /\ lastOp'.mode = "playing") =>
        /\ cursor' = CursorUpdate(cursor, lastOp'.dt)
        /\ <<position', target'>> = Committed(SampleAt(cursor'), position, target)
        /\ looks' = <<Look(position', target')>>
        /\ basePosition' = position'
        /\ baseTarget' = target'

C4_Playing == [][C4_PlayingStep]_vars

\* a Playing update of 1/64 s moved the cursor and the pose after the
\* hover clock had run
C4_Witness ==
    /\ IsUpdate(lastOp)
    /\ lastOp.mode = "playing"
    /\ lastOp.dt = 64
    /\ hoverTime > 0
    /\ cursor > 0
    /\ looks = <<Look(position, target)>>
    /\ basePosition = position

\* C5: a Paused update leaves the time cursor, the timeline pose and the
\* basePose unchanged for any dt, and sends the camera
\* basePosition + hover(hoverTime) and baseTarget.
C5_PausedStep ==
    (IsUpdate(lastOp') /\ lastOp'.mode = "paused") =>
        /\ UNCHANGED <<cursor, position, target, basePosition, baseTarget>>
        /\ looks' = <<Look(VAdd(basePosition, Hover(hoverTime')), baseTarget)>>

C5_Paused == [][C5_PausedStep]_vars

\* a Paused update of 5 s was made away from the start of the track
C5_Witness ==
    /\ IsUpdate(lastOp)
    /\ lastOp.mode = "paused"
    /\ lastOp.dt = 20480
    /\ cursor > 0
    /\ looks[1].position # basePosition
    /\ looks[1].target = baseTarget

\* C6: AnimState.update commits the sample as (position, target) only if
\* all six components are finite and otherwise keeps the previous pose;
\* the timeline pose, basePose, fromPose and toPose are finite in every
\* reachable state.
C6_AllFinite ==
    /\ VFinite(position) /\ VFinite(target)
    /\ VFinite(basePosition) /\ VFinite(baseTarget)
    /\ VFinite(transitionFromPos) /\ VFinite(transitionFromTarget)
    /\ VFinite(transitionToPos) /\ VFinite(transitionToTarget)

C6_CommitStep ==
    (IsNavigation(lastOp') \/ (IsUpdate(lastOp') /\ lastOp'.mode = "playing")) =>
        LET result == SampleAt(cursor')
        IN  IF EveryFinite(result)
            THEN /\ position' = Vec3(result[1], result[2], result[3])
                 /\ target' = Vec3(result[4], result[5], result[6])
            ELSE /\ position' = position
                 /\ target' = target

C6_FiniteCommit == []C6_AllFinite /\ [][C6_CommitStep]_vars

\* a Playing update sampled the curve inside its non-finite gap and the
\* pose of the frame before was kept
C6_Witness ==
    /\ IsUpdate(lastOp)
    /\ lastOp.mode = "playing"
    /\ lastOp.dt > 0
    /\ ~EveryFinite(SampleAt(cursor))
    /\ C6_AllFinite
    /\ looks = <<Look(position, target)>>

\* keyframe k (sixteenths of a sample) lies more than 0.1 sample after /
\* before time t (ticks), all terms scaled by 10 * UnitsPerSample * TicksPerSecond
StrictlyAfter(k, t) ==
    10 * k * TicksPerSecond
        > 10 * t * frameRate * UnitsPerSample + UnitsPerSample * TicksPerSecond

StrictlyBefore(k, t) ==
    10 * k * TicksPerSecond
        < 10 * t * frameRate * UnitsPerSample - UnitsPerSample * TicksPerSecond

\* time s (ticks) is keyframe k converted to seconds
IsTimeOf(s, k) == s * frameRate * UnitsPerSample = k * TicksPerSecond

Min(S) == CHOOSE x \in S : \A y \in S : x <= y

Max(S) == CHOOSE x \in S : \A y \in S : x >= y

\* C7: getNextKeyframe(t) is the time of the first keyframe more than 0.1
\* sample after t, getPrevKeyframe(t) the time of the last keyframe more
\* than 0.1 sample before t; with no such keyframe next is the first
\* keyframe and prev the last; with no keyframes both are 0.  Keyframes
\* 0, 30, 60 at 30 fps: next(0) = 1 s and prev(0) = 2 s.
C7_KeyframeLookup ==
    query.asked =>
        LET n == Len(keyframes)
            after == { i \in 1..n : StrictlyAfter(keyframes[i], query.t) }
            before == { i \in 1..n : StrictlyBefore(keyframes[i], query.t) }
        IN  /\ n = 0 => query.next = 0 /\ query.prev = 0
            /\ n > 0 =>
                /\ IsTimeOf(query.next,
                            keyframes[IF after = {} THEN 1 ELSE Min(after)])
                /\ IsTimeOf(query.prev,
                            keyframes[IF before = {} THEN n ELSE Max(before)])
            /\ (keyframes = ExampleKeys /\ frameRate = 30 /\ query.t = 0) =>
                /\ query.next = TicksPerSecond
                /\ query.prev = 2 * TicksPerSecond

\* a lookup past the last of three distinct keyframes wrapped next to the
\* first keyframe while prev found the last one
C7_Witness ==
    /\ query.asked
    /\ Len(keyframes) = 3
    /\ keyframes[1] > 0
    /\ keyframes[1] < keyframes[2]
    /\ keyframes[2] < keyframes[3]
    /\ StrictlyBefore(keyframes[3], query.t)
    /\ IsTimeOf(query.next, keyframes[1])
    /\ IsTimeOf(query.prev, keyframes[3])

\* t (ticks) lies strictly between keyframes i and i + 1
StrictlyBetween(t, i) ==
    /\ keyframes[i] * TicksPerSecond < t * frameRate * UnitsPerSample
    /\ t * frameRate * UnitsPerSample < keyframes[i + 1] * TicksPerSecond

\* C8: for t strictly between two keyframes of an ordered list,
\* getPrevKeyframe(getNextKeyframe(t)) is the time of a keyframe that is
\* at most t plus the 0.1-sample epsilon.
C8_RoundTrip ==
    (query.asked /\ \E i \in 1..(Len(keyframes) - 1) : StrictlyBetween(query.t, i)) =>
        \E j \in 1..Len(keyframes) :
            /\ IsTimeOf(query.back, keyframes[j])
            /\ ~StrictlyAfter(keyframes[j], query.t)

\* t lies between the second and third of three keyframes more than the
\* epsilon apart, and the round trip came back to the second
C8_Witness ==
    /\ query.asked
    /\ Len(keyframes) = 3
    /\ 10 * (keyframes[2] - keyframes[1]) > UnitsPerSample
    /\ 10 * (keyframes[3] - keyframes[2]) > UnitsPerSample
    /\ StrictlyBetween(query.t, 2)
    /\ IsTimeOf(query.next, keyframes[3])
    /\ IsTimeOf(query.back, keyframes[2])

\* C9 as stated: hoverTime is the sum of every dt passed to update.
C9_HoverIsTotalTime == hoverTime = sumDt

\* C9 as the code has it: hoverTime never decreases; an update made while
\* transitioning or paused adds exactly dt, a Playing update and next/prev
\* leave it unchanged, so hoverTime is the sum of the dt of the updates
\* made while transitioning or paused.
C9_HoverStep ==
    /\ hoverTime' >= hoverTime
    /\ (IsUpdate(lastOp') /\ lastOp'.mode \in {"transitioning", "paused"}) =>
            hoverTime' = hoverTime + lastOp'.dt
    /\ (IsUpdate(lastOp') /\ lastOp'.mode = "playing") => hoverTime' = hoverTime
    /\ IsNavigation(lastOp') => hoverTime' = hoverTime

C9_HoverClock == [](hoverTime = sumHoverDt) /\ [][C9_HoverStep]_vars

\* the clock ran during a pause, stood still during playback, and a
\* navigation command then left it alone
C9_Witness ==
    /\ IsNavigation(lastOp)
    /\ hoverTime > 0
    /\ hoverTime < sumDt
    /\ hoverTime = sumHoverDt

\* the update calls that leave a transition at progress 0 or at progress 1
AtTransitionStart == IsUpdate(lastOp) /\ lastOp.mode = "transitioning" /\ transitionProgress = DZero

AtTransitionEnd == IsUpdate(lastOp) /\ lastOp.mode = "transitioning" /\ transitionProgress = DOne

\* C10 as stated: the pose sent to the camera at progress 0 is fromPose and
\* at progress 1 is toPose, in position and target.
C10_PoseIsEndpoint ==
    /\ AtTransitionStart =>
            looks = <<Look(transitionFromPos, transitionFromTarget)>>
    /\ AtTransitionEnd =>
            looks = <<Look(transitionToPos, transitionToTarget)>>

\* C10 as the code has it: at progress 0 the camera target is fromTarget
\* and at progress 1 it is toTarget; the camera position is fromPos (toPos)
\* plus the hover offset for the current hoverTime.
C10_BlendIsEndpoint ==
    /\ AtTransitionStart =>
            looks = <<Look(VAdd(transitionFromPos, Hover(hoverTime)),
                           transitionFromTarget)>>
    /\ AtTransitionEnd =>
            looks = <<Look(VAdd(transitionToPos, Hover(hoverTime)),
                           transitionToTarget)>>

\* a transition between two different poses completed in one update
C10_Witness ==
    /\ AtTransitionEnd
    /\ DLess(lastOp.progress, DOne)
    /\ transitionFromPos # transitionToPos
    /\ transitionFromTarget # transitionToTarget
    /\ looks[1].target = transitionToTarget
    /\ looks[1].position # transitionToPos

\* the eased blend of fromPose and toPose at the current progress
BlendPos == VLerp(transitionFromPos, transitionToPos, easeOutCubic(transitionProgress))

BlendTarget == VLerp(transitionFromTarget, transitionToTarget, easeOutCubic(transitionProgress))

WasTransitionUpdate == IsUpdate(lastOp) /\ lastOp.mode = "transitioning"

\* C11 as stated: an update made while transitioning with isPaused = false
\* sends the camera the eased blend with no hover offset.
C11_NoHoverUnlessPaused ==
    (WasTransitionUpdate /\ ~lastOp.paused) => looks = <<Look(BlendPos, BlendTarget)>>

\* C11 as the code has it: every update made while transitioning, with the
\* pause flag set or clear, sends the camera the eased blend with the hover
\* offset for the incremented hoverTime added to its position.
C11_HoverAlways ==
    WasTransitionUpdate =>
        looks = <<Look(VAdd(BlendPos, Hover(hoverTime)), BlendTarget)>>

\* an unpaused update of 0.5 s took a transition between two different
\* poses to progress 0.625 and the camera position is off the blend
C11_Witness ==
    /\ WasTransitionUpdate
    /\ ~lastOp.paused
    /\ isTransitioning
    /\ transitionProgress = DFromInt(5, 0 - 3)
    /\ transitionFromPos # transitionToPos
    /\ looks[1].position # BlendPos
    /\ looks[1].target = BlendTarget

\* C13: in loop mode repeat the time cursor's value lies in [0, duration)
\* after construction and after every update, next and prev, including the
\* advance(0) issued after the cursor was assigned a keyframe time equal to
\* the duration.
C13_RepeatCursorInRange ==
    loopMode = "repeat" => (CursorValue(cursor) >= 0 /\ CursorValue(cursor) < duration)

\* prev() at the start of a repeating track jumped to the last keyframe,
\* whose time is the duration, and the cursor came out at 0
C13_Witness ==
    /\ loopMode = "repeat"
    /\ steps = 1
    /\ lastOp.op = "prev"
    /\ Len(keyframes) > 0
    /\ KeyframeTime(keyframes[Len(keyframes)]) = duration
    /\ CursorValue(cursor) = 0

\* C15: with the default transitionDuration, transitionProgress is in
\* [0, 1] in every reachable state and is below 1 whenever isTransitioning.
C15_ProgressInRange ==
    /\ transitionProgress.kind = "num"
    /\ ~DLess(transitionProgress, DZero)
    /\ ~DLess(DOne, transitionProgress)
    /\ isTransitioning => DLess(transitionProgress, DOne)

\* an update of 5 s on a transition already under way clamped the progress
\* to 1 and ended the transition
C15_Witness ==
    /\ WasTransitionUpdate
    /\ lastOp.dt = 20480
    /\ DLess(DZero, lastOp.progress)
    /\ transitionProgress = DOne
    /\ ~isTransitioning

\* C18 as stated: an update made while transitioning leaves the time cursor
\* and the timeline pose unchanged; when the transition a next() or prev()
\* started has completed, the cursor still holds the keyframe time that
\* command assigned to it, and the first Playing update after completion
\* samples the timeline at that keyframe time advanced by dt.
C18_TransitionStep ==
    /\ (IsUpdate(lastOp') /\ isTransitioning) => UNCHANGED <<cursor, position, target>>
    /\ (WasTransitionUpdate /\ ~isTransitioning
            /\ IsUpdate(lastOp') /\ lastOp'.mode = "playing") =>
            /\ cursor' = CursorUpdate(CursorSet(destination), lastOp'.dt)
            /\ <<position', target'>> = Committed(SampleAt(cursor'), position, target)

C18_DestinationHeld ==
    (WasTransitionUpdate /\ ~isTransitioning) => CursorValue(cursor) = destination

C18_TimelineHeld == []C18_DestinationHeld /\ [][C18_TransitionStep]_vars

\* C19: when not transitioning basePose is the timeline pose; when
\* transitioning toPose is the timeline pose and basePose is fromPose.
C19_BasePose ==
    IF isTransitioning
    THEN /\ <<transitionToPos, transitionToTarget>> = <<position, target>>
         /\ <<basePosition, baseTarget>> = <<transitionFromPos, transitionFromTarget>>
    ELSE <<basePosition, baseTarget>> = <<position, target>>

\* a transition between two different poses completed and the base pose
\* is the timeline pose at the destination
C19_Witness ==
    /\ WasTransitionUpdate
    /\ ~isTransitioning
    /\ DLess(DZero, lastOp.progress)
    /\ transitionFromPos # transitionToPos
    /\ basePosition = position
    /\ basePosition # transitionFromPos

\* the cursor value is the time of keyframe i
OnKeyframe(c, i) == CursorValue(c) = KeyframeTime(keyframes[i])

\* C20 as stated: with the cursor on keyframe i, next() puts it on the
\* keyframe after i and prev() on the keyframe before i, cyclically.
C20_CyclicStep ==
    \A i \in 1..Len(keyframes) :
        OnKeyframe(cursor, i) =>
            /\ lastOp'.op = "next" => OnKeyframe(cursor', (i % Len(keyframes)) + 1)
            /\ lastOp'.op = "prev" =>
                   OnKeyframe(cursor', IF i = 1 THEN Len(keyframes) ELSE i - 1)

C20_CyclicOrder == [][C20_CyclicStep]_vars

\* C12: every update call, in playing, paused and transitioning mode and on
\* the frame that completes a transition, reads the input frame exactly
\* once, and what the frame holds influences nothing: the step is the step
\* update takes on every other frame content.
C12_DrainStep ==
    IsUpdate(lastOp') =>
        /\ reads' = 1
        /\ \A inputFrame \in InputFrames :
                UpdateCall(lastOp'.dt, inputFrame, lastOp'.paused)

C12_InputDrained == [][C12_DrainStep]_vars

\* the frame completing a transition drained the input
C12_Witness ==
    /\ WasTransitionUpdate
    /\ ~isTransitioning
    /\ DLess(lastOp.progress, DOne)
    /\ reads = 1

\* C14 as stated: with transitionDuration <= 0, transitionProgress stays a
\* finite value in [0, 1] over every update with dt >= 0.
C14_ProgressGuarded ==
    /\ transitionProgress.kind = "num"
    /\ ~DLess(transitionProgress, DZero)
    /\ ~DLess(DOne, transitionProgress)

\* a time of t ticks is less than a duration of d tenths of a second
ShorterThan(t, d) == TenthsPerSecond * t < d * TicksPerSecond

\* C16 as stated, for its count: a transition still in flight has been given
\* less than transitionDuration of frame time, which for a constant dt is
\* completion within ceil(transitionDuration / dt) updates.
C16_WithinCeiling == isTransitioning => ShorterThan(sumDt, transitionDuration)

\* a frame with dt >= transitionDuration completes the transition at once
C16_OneFrameStep ==
    (isTransitioning /\ IsUpdate(lastOp')
        /\ ~ShorterThan(lastOp'.dt, transitionDuration)) =>
        /\ ~isTransitioning'
        /\ basePosition' = transitionToPos
        /\ baseTarget' = transitionToTarget

\* a frame leaves the transition in flight only when the frames before it
\* added up to less than transitionDuration, which for a constant dt is
\* completion within ceil(transitionDuration / dt) + 1 updates
C16_WithinCeilingPlusOne ==
    (isTransitioning /\ IsUpdate(lastOp') /\ isTransitioning') =>
        ShorterThan(sumDt, transitionDuration)

\* with the default duration every quotient of a frame time is exact and the
\* frames in flight add up to less than transitionDuration
C16_ExactQuotients ==
    (isTransitioning /\ transitionDuration = defaultTransitionDuration) =>
        ShorterThan(sumDt, transitionDuration)

\* C16 as the code has it: once next() or prev() has started a transition
\* and update keeps being called with dt > 0 and no further navigation, the
\* controller reaches isTransitioning = false with basePose = toPose, after
\* at most ceil(transitionDuration / dt) + 1 updates of a constant dt, the
\* one more being taken when the rounded quotients dt / transitionDuration
\* add up to less than 1; a single update with dt >= transitionDuration
\* completes it.
C16_EventuallyCompletes ==
    /\ isTransitioning ~> (/\ ~isTransitioning
                           /\ basePosition = transitionToPos
                           /\ baseTarget = transitionToTarget)
    /\ [][C16_WithinCeilingPlusOne]_vars
    /\ []C16_ExactQuotients
    /\ [][C16_OneFrameStep]_vars

\* a transition of 2.5 s run at 0.25 s a frame was still in flight, a hair
\* below 1, after frames adding up to 2.5 s, and the next frame completed it
C16_Witness ==
    /\ WasTransitionUpdate
    /\ lastOp.dt = 1024
    /\ sumDt = 11 * 1024
    /\ ~ShorterThan(sumDt - lastOp.dt, transitionDuration)
    /\ DLess(lastOp.progress, DOne)
    /\ ~isTransitioning
    /\ basePosition = transitionToPos
    /\ transitionFromPos # transitionToPos

\* C17: an update made while transitioning gives transitionProgress,
\* isTransitioning, basePose and the time cursor the same successor values
\* with isPaused set as with isPaused clear, and the paused mode is taken
\* only by an update made when no transition is in flight.
C17_PauseStep ==
    /\ (isTransitioning /\ IsUpdate(lastOp')) =>
            LET sum == ProgressSum(lastOp'.dt)
                done == AtLeastOne(sum)
            IN  /\ transitionProgress' = IF done THEN DOne ELSE sum
                /\ isTransitioning' = ~done
                /\ basePosition' = IF done THEN transitionToPos ELSE basePosition
                /\ baseTarget' = IF done THEN transitionToTarget ELSE baseTarget
                /\ cursor' = cursor
    /\ (IsUpdate(lastOp') /\ lastOp'.mode = "paused") =>
            /\ ~isTransitioning
            /\ transitionProgress' = transitionProgress

C17_PauseIgnored == [][C17_PauseStep]_vars

\* a transition advanced on a frame that had the pause flag set
C17_Witness ==
    /\ WasTransitionUpdate
    /\ lastOp.paused
    /\ lastOp.dt > 0
    /\ isTransitioning
    /\ DLess(lastOp.progress, transitionProgress)

====
